---------------------------- MODULE Spec2Model ----------------------------
(***************************************************************************)
(* A model of the LoL dashboard: the statistics module                     *)
(* (src/src/calculate_stats.py) with the match filter, the per-champion    *)
(* aggregation, the recent-match selector and the patch list, and the      *)
(* fetcher (src/src/fetch_matches.py) with the HTTP request loop, the      *)
(* incremental selection of match ids and the merge into the data file.    *)
(*                                                                         *)
(* Python values are modelled as follows.                                  *)
(*   - str: a TLA+ string; Len, SubSeq, Head, Tail and \o act on strings.  *)
(*   - list: a sequence.  dict with insertion order: a sequence of the     *)
(*     values in insertion order.                                          *)
(*   - time: one unit of the model is one second, where gameCreation and   *)
(*     the thresholds of the code count milliseconds (30 days of           *)
(*     milliseconds exceed the 32-bit integers of TLC).  The code          *)
(*     only adds whole days to, and compares, these quantities, so the     *)
(*     scale does not change which records a threshold keeps; "one         *)
(*     millisecond before" reads "one unit before".                        *)
(*   - a naive local datetime: the units of local wall clock time since a  *)
(*     local Monday 00:00:00.000 (week 0 of the model).  The part of       *)
(*     datetime.now() below one unit is dropped: every use of it in the    *)
(*     code ends in int(... * 1000), which truncates it.                   *)
(*   - datetime.timestamp(): local time minus the UTC offset in force at   *)
(*     that local time (tz), so that a week with a clock change does not   *)
(*     last 7 * 24 hours.                                                  *)
(*   - a float rounded to k decimals: the integer number of 10^-k units.   *)
(***************************************************************************)
EXTENDS Integers, Sequences, FiniteSets, TLC

VARIABLES
    matches,    \* the caller's list object handed to the operation
    input,      \* the contents of that list when the last call was made
    now,        \* the local wall clock, datetime.now()
    tz,         \* the local time zone: [at, shift] (one clock change)
    op,         \* the last operation called
    period,     \* the period argument of the last call
    mode,       \* the mode argument of the last call
    count,      \* the count argument of the last call
    ret,        \* the value the last call returned
    raised,     \* the exception the last call raised, or "none"
    read_at,    \* what datetime.now() returned when it was last read
    prev,       \* calculate_champion_stats: the call before the last call
    file,       \* data/matches.json: [last_update, matches]
    existing_matches,   \* main: the matches the last run loaded
    new_matches,        \* main: the matches the last run fetched
    pc,         \* _request: "while" at the loop test of a call, else "idle"
    retry_count,    \* _request: its local retry_count
    url,        \* _request: the endpoint asked for
    response,   \* _request: what the last requests.get gave
    slept,      \* _request: the last time.sleep, in tenths of a second
    message,    \* _request: the text of the exception raised
    riot,       \* the player's matches at the Riot API, newest first
    last_update_timestamp,  \* fetch_new_matches: the cutoff
    match_ids   \* fetch_new_matches: the ids selected

statsVars == <<matches, input, period, mode, count, read_at, prev>>
mergeVars == <<file, existing_matches, new_matches>>
requestVars == <<pc, retry_count, url, response, slept, message>>
selectVars == <<riot, last_update_timestamp, match_ids>>
fetchVars == <<mergeVars, requestVars, selectVars>>
vars == <<matches, input, now, tz, op, period, mode, count, ret, raised,
          read_at, prev, file, existing_matches, new_matches,
          pc, retry_count, url, response, slept, message,
          riot, last_update_timestamp, match_ids>>

-----------------------------------------------------------------------------
(* Bounds of the model *)

\* the longest match list handed to an operation
MaxLen == 3

\* the longest match list handed to the grouping of champions
MaxGroupLen == 4

\* the largest count handed to get_recent_matches
MaxCount == 4

\* the number of stored records the patch list is drawn from
MaxPatchRecords == 9
MaxFetched == 2         \* the matches one run of main fetches
MaxPlayed == 5          \* the matches the API holds for the player
PageSize == 2           \* the ids of one page; count = 100 in the code

-----------------------------------------------------------------------------
(* Time *)

Hour == 60 * 60
Day  == 24 * Hour
Week == 7 * Day

\* timedelta(days = n)
timedelta(days) == days * Day

\* tzinfo.utcoffset of the local zone at a naive local time, relative to the
\* offset in force at the model's epoch
utcoffset(local, zone) == IF local >= zone.at THEN zone.shift ELSE 0

\* int(datetime.timestamp() * 1000): the epoch time of a naive local time
timestamp(local, zone) == local - utcoffset(local, zone)

\* datetime.weekday(): Monday is 0; the model's epoch is a Monday 00:00
weekday(local) == (local \div Day) % 7

\* datetime.replace(hour=0, minute=0, second=0, microsecond=0)
midnight(local) == (local \div Day) * Day

-----------------------------------------------------------------------------
(* Strings *)

\* str.startswith
startswith(s, prefix) ==
    /\ Len(s) >= Len(prefix)
    /\ SubSeq(s, 1, Len(prefix)) = prefix

\* str.replace(old, new) for a non-empty old: every non-overlapping
\* occurrence, left to right
RECURSIVE replace(_, _, _)
replace(s, old, new) ==
    IF Len(s) < Len(old) THEN s
    ELSE IF SubSeq(s, 1, Len(old)) = old
         THEN new \o replace(SubSeq(s, Len(old) + 1, Len(s)), old, new)
         ELSE Head(s) \o replace(Tail(s), old, new)

DigitChars == "0123456789"

IsDigit(c) == \E i \in 1..10 : SubSeq(DigitChars, i, i) = c

DigitVal(c) == (CHOOSE i \in 1..10 : SubSeq(DigitChars, i, i) = c) - 1

\* str.strip() of ASCII blanks
RECURSIVE lstrip(_)
lstrip(s) == IF Len(s) > 0 /\ Head(s) = " " THEN lstrip(Tail(s)) ELSE s

RECURSIVE rstrip(_)
rstrip(s) ==
    IF Len(s) > 0 /\ SubSeq(s, Len(s), Len(s)) = " "
    THEN rstrip(SubSeq(s, 1, Len(s) - 1))
    ELSE s

\* the digits of an int() literal: digits, single underscores between them
IsIntBody(b) ==
    /\ Len(b) >= 1
    /\ IsDigit(Head(b))
    /\ IsDigit(SubSeq(b, Len(b), Len(b)))
    /\ \A i \in 1..Len(b) :
          LET c == SubSeq(b, i, i)
          IN  \/ IsDigit(c)
              \/ c = "_" /\ i < Len(b) /\ SubSeq(b, i + 1, i + 1) # "_"

RECURSIVE IntBodyVal(_, _)
IntBodyVal(b, acc) ==
    IF Len(b) = 0 THEN acc
    ELSE IF Head(b) = "_" THEN IntBodyVal(Tail(b), acc)
         ELSE IntBodyVal(Tail(b), 10 * acc + DigitVal(Head(b)))

\* int(s) for a str, base 10: [ok |-> TRUE, val |-> n], or ok = FALSE where
\* Python raises ValueError
PyInt(s) ==
    LET t    == rstrip(lstrip(s))
        sign == IF Len(t) > 0 /\ Head(t) \in {"+", "-"} THEN Head(t) ELSE ""
        body == IF sign = "" THEN t ELSE Tail(t)
    IN  IF IsIntBody(body)
        THEN [ok |-> TRUE,
              val |-> IF sign = "-" THEN 0 - IntBodyVal(body, 0)
                                    ELSE IntBodyVal(body, 0)]
        ELSE [ok |-> FALSE, val |-> 0]

-----------------------------------------------------------------------------
(* filter_matches *)

\* m["gameVersion"].startswith(patch_version)
patch_keep_prefixdot(m, patch_version) ==
    startswith(m.gameVersion, patch_version \o ".")

patch_keep(m, patch_version) == startswith(m.gameVersion, patch_version)

\* threshold of "this_week": this Monday 00:00 local, in epoch time
this_week_threshold(t, zone) ==
    LET monday       == t - timedelta(weekday(t))
        monday_start == midnight(monday)
    IN  timestamp(monday_start, zone)

\* start_threshold <= m["gameCreation"] < end_threshold
last_week_keep_closed(m, start_threshold, end_threshold) ==
    start_threshold <= m.gameCreation /\ m.gameCreation <= end_threshold

last_week_keep(m, start_threshold, end_threshold) ==
    start_threshold <= m.gameCreation /\ m.gameCreation < end_threshold

\* the "last_week" branch
last_week_filter(filtered, t, zone) ==
    LET this_monday       == t - timedelta(weekday(t))
        this_monday_start == midnight(this_monday)
        last_monday       == this_monday_start - timedelta(7)
        start_threshold   == timestamp(last_monday, zone)
        end_threshold     == timestamp(this_monday_start, zone)
        keep(m)           == last_week_keep(m, start_threshold, end_threshold)
    IN  SelectSeq(filtered, keep)

\* the "last_30_days" and "last_7_days" branches
last_days_filter(filtered, days, t, zone) ==
    LET threshold == timestamp(t - timedelta(days), zone)
        keep(m)   == m.gameCreation >= threshold
    IN  SelectSeq(filtered, keep)

\* the period step: if period != "all": if / elif ... with no else
period_filter_strict(filtered, p, t, zone) ==
    IF p = "all" THEN filtered ELSE <<>>

period_filter(filtered, p, t, zone) ==
    IF p = "all" THEN filtered
    ELSE IF startswith(p, "patch_")
    THEN LET patch_version == replace(p, "patch_", "")
             keep(m)       == patch_keep(m, patch_version)
         IN  SelectSeq(filtered, keep)
    ELSE IF p = "this_week"
    THEN LET threshold == this_week_threshold(t, zone)
             keep(m)   == m.gameCreation >= threshold
         IN  SelectSeq(filtered, keep)
    ELSE IF p = "last_week"    THEN last_week_filter(filtered, t, zone)
    ELSE IF p = "last_30_days" THEN last_days_filter(filtered, 30, t, zone)
    ELSE IF p = "last_7_days"  THEN last_days_filter(filtered, 7, t, zone)
    ELSE filtered

\* the mode step: try: queue_id = int(mode) ... except ValueError: pass
mode_filter_raising(filtered, md) ==
    IF md = "all" THEN [raised |-> "none", ret |-> filtered]
    ELSE LET queue_id == PyInt(md)
             keep(m)  == m.queueId = queue_id.val
         IN  IF queue_id.ok
             THEN [raised |-> "none", ret |-> SelectSeq(filtered, keep)]
             ELSE [raised |-> "ValueError", ret |-> <<>>]

mode_filter(filtered, md) ==
    IF md = "all" THEN [raised |-> "none", ret |-> filtered]
    ELSE LET queue_id == PyInt(md)
             keep(m)  == m.queueId = queue_id.val
         IN  IF queue_id.ok
             THEN [raised |-> "none", ret |-> SelectSeq(filtered, keep)]
             ELSE [raised |-> "none", ret |-> filtered]

\* filter_matches in which the caller's list is filtered in place
filter_matches_inplace(ms, p, md, t, zone) ==
    LET r == mode_filter(period_filter(ms, p, t, zone), md)
    IN  [ret |-> r.ret, raised |-> r.raised, matches |-> r.ret]

\* filter_matches(matches, period, mode): the returned list, the exception
\* raised and the caller's list after the call
filter_matches(ms, p, md, t, zone) ==
    LET filtered == ms      \* matches.copy()
        r        == mode_filter(period_filter(filtered, p, t, zone), md)
    IN  [ret |-> r.ret, raised |-> r.raised, matches |-> ms]

-----------------------------------------------------------------------------
(* Lists and numbers *)

Reverse(s) == [i \in 1..Len(s) |-> s[Len(s) + 1 - i]]

\* one step of a stable ascending sort of positions by keys: x goes behind
\* every position whose key is not larger
sort_insert(keys, sorted, x) ==
    LET n == Cardinality({i \in 1..Len(sorted) : keys[sorted[i]] <= keys[x]})
    IN  SubSeq(sorted, 1, n) \o <<x>> \o SubSeq(sorted, n + 1, Len(sorted))

RECURSIVE stable_sort(_, _)
stable_sort(keys, idxs) ==
    IF idxs = <<>> THEN <<>>
    ELSE sort_insert(keys,
                     stable_sort(keys, SubSeq(idxs, 1, Len(idxs) - 1)),
                     idxs[Len(idxs)])

\* list.sort(key, reverse) and sorted(key, reverse), keys[i] the key of s[i]:
\* a stable sort; with reverse the list is reversed, sorted and reversed
\* again, which keeps equal keys in their original order
list_sort(s, keys, reverse) ==
    LET idxs == [i \in 1..Len(s) |-> i]
        perm == IF reverse
                THEN Reverse(stable_sort(keys, Reverse(idxs)))
                ELSE stable_sort(keys, idxs)
    IN  [i \in 1..Len(s) |-> s[perm[i]]]

\* s[:n]
slice_to(s, n) ==
    IF n >= 0
    THEN SubSeq(s, 1, IF n < Len(s) THEN n ELSE Len(s))
    ELSE SubSeq(s, 1, IF Len(s) + n > 0 THEN Len(s) + n ELSE 0)

\* round(num / den) in units of 1 / scale, for num >= 0 and den > 0: floats
\* round to the nearest unit and a quotient exactly halfway goes to the even
\* neighbour.  (The quotients of the model that fall halfway are exact as
\* floats: halves, and odd eighths for two decimals with den < 40.)
py_round_half_up(num, den, scale) == (2 * num * scale + den) \div (2 * den)

py_round(num, den, scale) ==
    LET n == num * scale
        q == n \div den
        r == n % den
    IN  IF 2 * r < den THEN q
        ELSE IF 2 * r > den THEN q + 1
        ELSE IF q % 2 = 0 THEN q ELSE q + 1

-----------------------------------------------------------------------------
(* calculate_champion_stats *)

LowerChars == "abcdefghijklmnopqrstuvwxyz"
UpperChars == "ABCDEFGHIJKLMNOPQRSTUVWXYZ"

RECURSIVE to_lower(_)
to_lower(s) ==
    IF Len(s) = 0 THEN s
    ELSE LET c == Head(s)
             u == {i \in 1..26 : SubSeq(UpperChars, i, i) = c}
         IN  (IF u = {} THEN c
              ELSE LET i == CHOOSE k \in u : TRUE IN SubSeq(LowerChars, i, i))
             \o to_lower(Tail(s))

\* the key of champion_aggregates: my_data["championName"]
group_key_lower(my_data) == to_lower(my_data.championName)

group_key(my_data) == my_data.championName

\* the aggregation loop: champion_aggregates as the sequence of its values in
\* insertion order
RECURSIVE aggregate(_, _)
aggregate(filtered, aggs) ==
    IF filtered = <<>> THEN aggs
    ELSE LET my_data       == Head(filtered).myData
             champion_name == group_key(my_data)
             present == \E i \in 1..Len(aggs) :
                            aggs[i].championName = champion_name
             aggs1   == IF present THEN aggs
                        ELSE Append(aggs,
                                 [championName     |-> champion_name,
                                  games            |-> 0,
                                  wins             |-> 0,
                                  totalKills       |-> 0,
                                  totalDeaths      |-> 0,
                                  totalAssists     |-> 0,
                                  totalDamageDealt |-> 0,
                                  totalDamageTaken |-> 0])
             k   == CHOOSE i \in 1..Len(aggs1) :
                        aggs1[i].championName = champion_name
             agg == aggs1[k]
             upd == [agg EXCEPT
                       !.games            = @ + 1,
                       !.wins             = IF my_data.win THEN @ + 1 ELSE @,
                       !.totalKills       = @ + my_data.kills,
                       !.totalDeaths      = @ + my_data.deaths,
                       !.totalAssists     = @ + my_data.assists,
                       !.totalDamageDealt = @ + my_data.totalDamageDealtToChampions,
                       !.totalDamageTaken = @ + my_data.totalDamageTaken]
         IN  aggregate(Tail(filtered), [aggs1 EXCEPT ![k] = upd])

\* total_deaths or 1
kda_denominator_raw(total_deaths) == total_deaths

kda_denominator(total_deaths) == IF total_deaths = 0 THEN 1 ELSE total_deaths

\* the statistics of one aggregate; winRate in tenths of a percent point and
\* avgKDA in hundredths; a division by zero raises
champion_stat(agg) ==
    LET games   == agg.games
        wins    == agg.wins
        kda_den == kda_denominator(agg.totalDeaths)
    IN  IF kda_den = 0 THEN [raised |-> "ZeroDivisionError"]
        ELSE [raised |-> "none",
              stat |->
                [championName   |-> agg.championName,
                 games          |-> games,
                 wins           |-> wins,
                 losses         |-> games - wins,
                 winRate        |-> IF games > 0
                                    THEN py_round(wins * 100, games, 10)
                                    ELSE 0,
                 totalKills     |-> agg.totalKills,
                 totalDeaths    |-> agg.totalDeaths,
                 totalAssists   |-> agg.totalAssists,
                 avgKDA         |-> py_round(agg.totalKills + agg.totalAssists,
                                             kda_den, 100),
                 avgDamageDealt |-> IF games > 0
                                    THEN py_round(agg.totalDamageDealt, games, 1)
                                    ELSE 0,
                 avgDamageTaken |-> IF games > 0
                                    THEN py_round(agg.totalDamageTaken, games, 1)
                                    ELSE 0]]

\* champion_stats.sort(key=lambda s: s["games"], reverse=True)
sort_by_games_asc_reversed(champion_stats) ==
    Reverse(list_sort(champion_stats,
                      [i \in 1..Len(champion_stats) |-> champion_stats[i].games],
                      FALSE))

sort_by_games(champion_stats) ==
    list_sort(champion_stats,
              [i \in 1..Len(champion_stats) |-> champion_stats[i].games],
              TRUE)

\* calculate_champion_stats that filters the caller's list instead of a copy
calculate_champion_stats_consuming(ms, p, md, t, zone) ==
    LET f     == filter_matches(ms, p, md, t, zone)
        aggs  == aggregate(f.ret, <<>>)
        stats == [i \in 1..Len(aggs) |-> champion_stat(aggs[i])]
    IN  IF f.raised # "none"
        THEN [ret |-> <<>>, raised |-> f.raised, matches |-> f.ret]
        ELSE IF f.ret = <<>>
        THEN [ret |-> <<>>, raised |-> "none", matches |-> f.ret]
        ELSE IF \E i \in 1..Len(stats) : stats[i].raised # "none"
        THEN [ret |-> <<>>, raised |-> "ZeroDivisionError",
              matches |-> f.ret]
        ELSE [ret     |-> sort_by_games([i \in 1..Len(stats) |-> stats[i].stat]),
              raised  |-> "none",
              matches |-> f.ret]

\* calculate_champion_stats(matches, period, mode)
calculate_champion_stats(ms, p, md, t, zone) ==
    LET f     == filter_matches(ms, p, md, t, zone)
        aggs  == aggregate(f.ret, <<>>)
        stats == [i \in 1..Len(aggs) |-> champion_stat(aggs[i])]
    IN  IF f.raised # "none"
        THEN [ret |-> <<>>, raised |-> f.raised, matches |-> f.matches]
        ELSE IF f.ret = <<>>
        THEN [ret |-> <<>>, raised |-> "none", matches |-> f.matches]
        ELSE IF \E i \in 1..Len(stats) : stats[i].raised # "none"
        THEN [ret |-> <<>>, raised |-> "ZeroDivisionError",
              matches |-> f.matches]
        ELSE [ret     |-> sort_by_games([i \in 1..Len(stats) |-> stats[i].stat]),
              raised  |-> "none",
              matches |-> f.matches]

-----------------------------------------------------------------------------
(* get_recent_matches *)

\* sorted(matches, key=lambda m: m["gameCreation"], reverse=True)
sorted_by_creation_asc_reversed(ms) ==
    Reverse(list_sort(ms, [i \in 1..Len(ms) |-> ms[i].gameCreation], FALSE))

sorted_by_creation(ms) ==
    list_sort(ms, [i \in 1..Len(ms) |-> ms[i].gameCreation], TRUE)

\* get_recent_matches(matches, count)
get_recent_matches(ms, n) ==
    LET sorted_matches == sorted_by_creation(ms)
    IN  [ret |-> slice_to(sorted_matches, n), raised |-> "none", matches |-> ms]

-----------------------------------------------------------------------------
(* get_available_patches *)

\* the characters of version strings in the order of their code points
CodeOrder == ".0123456789"

Ord(c) == CHOOSE i \in 1..Len(CodeOrder) : SubSeq(CodeOrder, i, i) = c

\* a < b for two str: lexicographic by code point
RECURSIVE str_less(_, _)
str_less(a, b) ==
    IF Len(b) = 0 THEN FALSE
    ELSE IF Len(a) = 0 THEN TRUE
    ELSE IF Head(a) = Head(b) THEN str_less(Tail(a), Tail(b))
    ELSE Ord(Head(a)) < Ord(Head(b))

\* str.split(".")
RECURSIVE split_dot(_)
split_dot(s) ==
    LET dots == {i \in 1..Len(s) : SubSeq(s, i, i) = "."}
    IN  IF dots = {} THEN <<s>>
        ELSE LET k == CHOOSE i \in dots : \A j \in dots : i <= j
             IN  <<SubSeq(s, 1, k - 1)>>
                   \o split_dot(SubSeq(s, k + 1, Len(s)))

\* the loop over the matches: the set patches
RECURSIVE collect_patches(_, _)
collect_patches(ms, patches) ==
    IF ms = <<>> THEN patches
    ELSE LET game_version == Head(ms).gameVersion
             parts        == split_dot(game_version)
         IN  collect_patches(Tail(ms),
                 IF Len(parts) >= 2
                 THEN patches \cup {parts[1] \o "." \o parts[2]}
                 ELSE patches)

\* a before b as version numbers
version_less(a, b) ==
    LET dot(x)   == CHOOSE i \in 1..Len(x) : SubSeq(x, i, i) = "."
        major(x) == PyInt(SubSeq(x, 1, dot(x) - 1)).val
        minor(x) == PyInt(SubSeq(x, dot(x) + 1, Len(x))).val
    IN  \/ major(a) < major(b)
        \/ major(a) = major(b) /\ minor(a) < minor(b)

\* sorted(patches, reverse=True) of a set of distinct str
RECURSIVE sorted_reverse_numeric(_)
sorted_reverse_numeric(S) ==
    IF S = {} THEN <<>>
    ELSE LET m == CHOOSE x \in S : \A y \in S : y = x \/ version_less(y, x)
         IN  <<m>> \o sorted_reverse_numeric(S \ {m})

RECURSIVE sorted_reverse(_)
sorted_reverse(S) ==
    IF S = {} THEN <<>>
    ELSE LET m == CHOOSE x \in S : \A y \in S : y = x \/ str_less(y, x)
         IN  <<m>> \o sorted_reverse(S \ {m})

\* the number of patches returned: sorted_patches[:5]
TopPatches == 5

\* get_available_patches(matches)
get_available_patches(ms) ==
    IF ms = <<>> THEN [ret |-> <<>>, raised |-> "none", matches |-> ms]
    ELSE LET patches        == collect_patches(ms, {})
             sorted_patches == sorted_reverse(patches)
         IN  [ret     |-> slice_to(sorted_patches, TopPatches),
              raised  |-> "none",
              matches |-> ms]

-----------------------------------------------------------------------------
(* RiotAPIClient._request *)

max_retries == 3

\* response.headers.get("Retry-After", 120)
DefaultRetryAfter == 120

\* int(response.headers.get("Retry-After", 120)): the header is a str, the
\* default an int
retry_after(r) ==
    IF r.headers = <<>> THEN [ok |-> TRUE, val |-> DefaultRetryAfter]
    ELSE PyInt(r.headers[1])

\* the outcomes of one pass through the loop body
Continue(rc, secs) ==
    [pc |-> "while", retry_count |-> rc, ret |-> <<>>, raised |-> "none",
     message |-> "", slept |-> secs]

Raise(rc, exc, msg) ==
    [pc |-> "idle", retry_count |-> rc, ret |-> <<>>, raised |-> exc,
     message |-> msg, slept |-> 0]

Return(rc, json) ==
    [pc |-> "idle", retry_count |-> rc, ret |-> json, raised |-> "none",
     message |-> "", slept |-> 12]

\* the retry_count += 1 branches: sleep 5 seconds and go on below
\* max_retries, else raise
retry_or_raise(rc, msg) ==
    IF rc + 1 < max_retries
    THEN Continue(rc + 1, 50)
    ELSE Raise(rc + 1, "RiotAPIError", msg)

\* one test of the while condition and, where it holds, the loop body with
\* the result r of requests.get; where it fails, the raise after the loop
loop_pass(rc, r, u) ==
    IF ~(rc < max_retries)
    THEN Raise(rc, "RiotAPIError", "Unexpected error in _request")
    ELSE IF r.kind = "RequestException"
    THEN retry_or_raise(rc, "Request failed after retries")
    ELSE IF r.status = 429
    THEN LET ra == retry_after(r)
         IN  IF ~ra.ok \/ ra.val < 0
             THEN Raise(rc, "ValueError", "")    \* int() or time.sleep()
             ELSE Continue(rc, 10 * ra.val)
    ELSE IF r.status = 404
    THEN Raise(rc, "DataNotFoundError", "Data not found")
    ELSE IF 500 <= r.status /\ r.status < 600
    THEN retry_or_raise(rc, "Server error after retries")
    ELSE IF 400 <= r.status /\ r.status < 500
    THEN Raise(rc, "RiotAPIError", "Client error")
    ELSE Return(rc, [json |-> u])

-----------------------------------------------------------------------------
(* fetch_new_matches: the incremental selection of match ids *)

Min(a, b) == IF a < b THEN a ELSE b

\* client.get_match_ids(puuid, start, count): a page of the ids, newest first
get_match_ids(server, start, cnt) ==
    [i \in 1..(Min(start + cnt, Len(server)) - Min(start, Len(server))) |->
        server[start + i].matchId]

\* client.get_match_detail(match_id)["info"]["gameCreation"]
gameCreation(server, match_id) ==
    LET i == CHOOSE j \in 1..Len(server) : server[j].matchId = match_id
    IN  server[i].gameCreation

\* for match_id in batch: append while gameCreation >= cutoff, else break
RECURSIVE append_until_older(_, _, _)
append_until_older(server, batch, cutoff) ==
    IF batch = <<>> THEN <<>>
    ELSE IF gameCreation(server, Head(batch)) >= cutoff
    THEN <<Head(batch)>> \o append_until_older(server, Tail(batch), cutoff)
    ELSE <<>>

\* the while True loop of the incremental branch, from offset start with the
\* ids selected so far; the pages hold PageSize ids
RECURSIVE select_loop(_, _, _, _)
select_loop(server, cutoff, start, ids) ==
    LET batch == get_match_ids(server, start, PageSize)
    IN  IF batch = <<>> THEN ids
        ELSE IF gameCreation(server, batch[1]) < cutoff
        THEN ids \o append_until_older(server, batch, cutoff)
        ELSE IF Len(batch) < PageSize THEN ids \o batch
        ELSE select_loop(server, cutoff, start + PageSize, ids \o batch)

\* fetch_new_matches(puuid, api_key, last_update) with a last_update: the ids
\* selected and the matches fetched for them
fetch_new_matches(server, cutoff) ==
    LET ids == select_loop(server, cutoff, 0, <<>>)
    IN  [match_ids |-> ids,
         ret |-> [i \in 1..Len(ids) |->
                     [matchId |-> ids[i],
                      gameCreation |-> gameCreation(server, ids[i])]]]

-----------------------------------------------------------------------------
(* main: the merge of the stored and the fetched matches *)

\* unique_matches[match_id] = match that keeps the value the key has
dict_set_keep_first(unique_matches, match) ==
    IF \E i \in 1..Len(unique_matches) :
           unique_matches[i].matchId = match.matchId
    THEN unique_matches
    ELSE Append(unique_matches, match)

\* unique_matches[match_id] = match: a key that is there keeps its place
\* and takes the value, a new key goes last
dict_set(unique_matches, match) ==
    IF \E i \in 1..Len(unique_matches) :
           unique_matches[i].matchId = match.matchId
    THEN [i \in 1..Len(unique_matches) |->
              IF unique_matches[i].matchId = match.matchId
              THEN match ELSE unique_matches[i]]
    ELSE Append(unique_matches, match)

\* for match in all_matches: unique_matches[match["matchId"]] = match
RECURSIVE unique_loop(_, _)
unique_loop(all_matches, unique_matches) ==
    IF all_matches = <<>> THEN unique_matches
    ELSE unique_loop(Tail(all_matches),
                     dict_set(unique_matches, Head(all_matches)))

\* sorted(unique_matches.values(), key=gameCreation, reverse=True)
sorted_matches(unique_matches) ==
    list_sort(unique_matches,
              [i \in 1..Len(unique_matches) |-> unique_matches[i].gameCreation],
              TRUE)

\* the data main saves, from the data it loaded and the matches it fetched
output_data(existing_data, fetched, t) ==
    LET all_matches == existing_data.matches \o fetched
    IN  [last_update |-> t,
         matches     |-> sorted_matches(unique_loop(all_matches, <<>>))]

-----------------------------------------------------------------------------
(* Inputs *)

\* a Match record (src/src/fetch_matches.py, process_match_data); matchId is
\* stamped with the record's position when a list is built
Match(gc, q, gv, champ, win, k, d, a, dealt, taken) ==
    [matchId      |-> 0,
     gameCreation |-> gc,
     queueId      |-> q,
     gameVersion  |-> gv,
     myData       |-> [championName |-> champ, win |-> win,
                       kills |-> k, deaths |-> d, assists |-> a,
                       totalDamageDealtToChampions |-> dealt,
                       totalDamageTaken |-> taken]]

\* the lists of at most len records of R, with unique matchIds
ListsOver(R, len) ==
    UNION { { [i \in 1..n |-> [s[i] EXCEPT !.matchId = i]] : s \in [1..n -> R] }
            : n \in 0..len }

\* a zone without clock change, and a zone whose clocks go forward one hour
\* on the Sunday of week 1 at 02:00
FixedZone == [at |-> 0, shift |-> 0]
SpringZone == [at |-> Week + 6 * Day + 2 * Hour, shift |-> Hour]

\* records for the filter: two game modes, played this week on patch 14.3
\* or last week on patch 14.2 (for a clock in week 2)
FilterRecords ==
    { Match(g[1], q, g[2], "Ahri", TRUE, 0, 0, 0, 0, 0) :
        q \in {420, 450},
        g \in { <<2 * Week + Day, "14.3.456.789">>,
                <<Week + Day, "14.2.1.1">> } }

FilterPeriods ==
    { "all", "this_week", "last_week", "last_30_days", "last_7_days",
      "patch_14.3", "patch_patch_14.2",
      "", "This_Week", "last_14_days", "patch", "all " }

FilterModes == { "all", "450", "abc" }

ModePeriods == { "all", "this_week" }

ModeModes ==
    { "all", "420", "450", "abc", "", " 420 ", "+450", "4_20", "420.0",
      "4__20", "-1" }

\* records for the patch filter
PatchRecords ==
    { Match(0, 420, gv, "Ahri", TRUE, 0, 0, 0, 0, 0) :
        gv \in { "14.3.456.789", "14.30.1.1", "14.2.1.1", "14.3", "15.1.2.3" } }

PatchVersions == { "14.3", "14.2", "14.30", "14", "15.1", "" }

PatchPeriods == { "patch_" \o v : v \in PatchVersions }

\* records for the week filters: games created at and next to the Monday
\* boundaries of a clock in week 2, in either zone
WeekRecords ==
    { Match(gc, 420, "14.3.456.789", "Ahri", TRUE, 0, 0, 0, 0, 0) :
        gc \in { Week - 1, Week,
                 2 * Week - Hour - 1, 2 * Week - Hour,
                 2 * Week - 1, 2 * Week } }

\* clock readings in week 2: Monday 00:00:00.000, Thursday 12:00, and the
\* last instant of Sunday
WeekNows ==
    { 2 * Week, 2 * Week + 3 * Day + 12 * Hour, 3 * Week - 1 }

-----------------------------------------------------------------------------
(* The state machine *)

\* the periods whose branch reads datetime.now()
ClockPeriods == { "this_week", "last_week", "last_30_days", "last_7_days" }

\* read_at before any reading of the clock, and prev before any call
NoReading == 0 - 1
NoCall == [op |-> "none"]

\* existing_data of main when there is no data/matches.json
NoUpdate == 0 - 1
NoFile == [last_update |-> NoUpdate, matches |-> <<>>]

\* no requests.get yet in this call of _request
NoResponse == [kind |-> "none", status |-> 0, headers |-> <<>>]

\* main before its first run
MergeIdle ==
    /\ file = NoFile
    /\ existing_matches = <<>>
    /\ new_matches = <<>>

\* no call of _request yet
RequestIdle ==
    /\ pc = "idle"
    /\ retry_count = 0
    /\ url = ""
    /\ response = NoResponse
    /\ slept = 0
    /\ message = ""

\* no call of fetch_new_matches yet, nothing played
SelectIdle ==
    /\ riot = <<>>
    /\ last_update_timestamp = 0
    /\ match_ids = <<>>

\* the fetcher before anything ran
FetchIdle == MergeIdle /\ RequestIdle /\ SelectIdle

\* the statistics module before anything ran, on an empty list
StatsIdle ==
    /\ matches = <<>>
    /\ input = <<>>
    /\ period = "all"
    /\ mode = "all"
    /\ count = 0
    /\ read_at = NoReading
    /\ prev = NoCall

InitWith(R, len, Nows, Zones) ==
    /\ matches \in ListsOver(R, len)
    /\ input = matches
    /\ now \in Nows
    /\ tz \in Zones
    /\ op = "none"
    /\ period = "all"
    /\ mode = "all"
    /\ count = 0
    /\ ret = <<>>
    /\ raised = "none"
    /\ read_at = NoReading
    /\ prev = NoCall
    /\ FetchIdle

\* a call of filter_matches(matches, period, mode)
FilterMatches(P, M) ==
    \E p \in P, md \in M :
        LET r == filter_matches(matches, p, md, now, tz)
        IN  /\ op' = "filter_matches"
            /\ period' = p
            /\ mode' = md
            /\ input' = matches
            /\ matches' = r.matches
            /\ ret' = r.ret
            /\ raised' = r.raised
            /\ read_at' = (IF p \in ClockPeriods THEN now ELSE read_at)
            /\ UNCHANGED <<now, tz, count, prev, fetchVars>>

InitFilter == InitWith(FilterRecords, MaxLen, {2 * Week + 3 * Day}, {FixedZone})
NextFilter == FilterMatches(FilterPeriods, FilterModes)
SpecFilter == InitFilter /\ [][NextFilter]_vars

NextMode == FilterMatches(ModePeriods, ModeModes)
SpecMode == InitFilter /\ [][NextMode]_vars

InitPatch == InitWith(PatchRecords, MaxLen, {2 * Week}, {FixedZone})
NextPatch == FilterMatches(PatchPeriods, {"all"})
SpecPatch == InitPatch /\ [][NextPatch]_vars

InitWeek == InitWith(WeekRecords, MaxLen, WeekNows, {FixedZone, SpringZone})
NextWeek == FilterMatches({"this_week", "last_week"}, {"all"})
SpecWeek == InitWeek /\ [][NextWeek]_vars

\* records for the grouping: three champion names, two of them equal up to
\* case, in two game modes
GroupRecords ==
    { Match(0, q, "14.3.456.789", c, TRUE, 0, 0, 0, 0, 0) :
        q \in {420, 450}, c \in {"Ahri", "ahri", "Zed"} }

\* performances: queueId, win, kills, deaths, assists, damage dealt, damage
\* taken
Performances ==
    { <<420, TRUE, 10, 2, 5, 20000, 10000>>,
      <<450, FALSE, 2, 8, 3, 8000, 15000>>,
      <<420, TRUE, 3, 0, 4, 1, 0>>,
      <<450, FALSE, 1, 8, 0, 2, 3>> }

\* records for the averages: two champions with those performances
StatsRecords ==
    { Match(0, f[1], "14.3.456.789", c, f[2], f[3], f[4], f[5], f[6], f[7]) :
        c \in {"Ahri", "Zed"}, f \in Performances }

\* records for the recent matches: three creation times
RecentRecords ==
    { Match(gc, 420, "14.3.456.789", "Ahri", TRUE, 0, 0, 0, 0, 0) :
        gc \in {10, 20, 30} }

\* a call of calculate_champion_stats(matches, period, mode)
CalculateChampionStats(P, M) ==
    \E p \in P, md \in M :
        LET r == calculate_champion_stats(matches, p, md, now, tz)
        IN  /\ op' = "calculate_champion_stats"
            /\ period' = p
            /\ mode' = md
            /\ input' = matches
            /\ matches' = r.matches
            /\ ret' = r.ret
            /\ raised' = r.raised
            /\ read_at' = (IF p \in ClockPeriods THEN now ELSE read_at)
            /\ prev' = [op |-> op, period |-> period, mode |-> mode,
                        input |-> input, read_at |-> read_at,
                        ret |-> ret, raised |-> raised]
            /\ UNCHANGED <<now, tz, count, fetchVars>>

\* a call of get_recent_matches(matches, count)
GetRecentMatches ==
    \E n \in 0..MaxCount :
        LET r == get_recent_matches(matches, n)
        IN  /\ op' = "get_recent_matches"
            /\ count' = n
            /\ input' = matches
            /\ matches' = r.matches
            /\ ret' = r.ret
            /\ raised' = r.raised
            /\ UNCHANGED <<now, tz, period, mode, read_at, prev, fetchVars>>

InitGroups == InitWith(GroupRecords, MaxGroupLen, {2 * Week}, {FixedZone})
NextGroups == CalculateChampionStats({"all"}, {"all", "420"})
SpecGroups == InitGroups /\ [][NextGroups]_vars

InitStats == InitWith(StatsRecords, MaxLen, {2 * Week}, {FixedZone})
NextStats == CalculateChampionStats({"all"}, {"all", "450"})
SpecStats == InitStats /\ [][NextStats]_vars

\* records for repeated calls: two champions, games of Tuesday of week 1 and
\* of the first hour of week 2
IdemRecords ==
    { Match(gc, 420, "14.3.456.789", c, TRUE, 0, 0, 0, 0, 0) :
        gc \in {Week + Day, 2 * Week + 1800}, c \in {"Ahri", "Zed"} }

\* clock readings: Sunday of week 1 and Monday 01:00 of weeks 2 and 3
IdemNows == { Week + 6 * Day, 2 * Week + Hour, 3 * Week + Hour }

IdemPeriods == { "all", "patch_14.3", "this_week", "last_week", "last_7_days" }

\* the wall clock advances
Tick ==
    \E t \in IdemNows :
        /\ t > now
        /\ now' = t
        /\ UNCHANGED <<matches, input, tz, op, period, mode, count, ret,
                       raised, read_at, prev, fetchVars>>

InitIdem == InitWith(IdemRecords, MaxLen, IdemNows, {FixedZone})
NextIdem == CalculateChampionStats(IdemPeriods, {"all"}) \/ Tick
SpecIdem == InitIdem /\ [][NextIdem]_vars

InitRecent == InitWith(RecentRecords, MaxLen, {2 * Week}, {FixedZone})
NextRecent == GetRecentMatches
SpecRecent == InitRecent /\ [][NextRecent]_vars

\* game versions of stored records, in stored order: seven patches, one of
\* them twice, a version without a dot and an empty version
StoredVersions ==
    << "14.9.1.1", "14.10.2.2", "14", "14.3.456.789", "15.1.2.3",
       "14.3.9.9", "13.24.5.5", "14.2.1.1", "", "14.30.1.1" >>

\* the records of the positions S of s, in the order of s
RECURSIVE Pick(_, _, _)
Pick(s, S, i) ==
    IF i > Len(s) THEN <<>>
    ELSE (IF i \in S THEN <<s[i]>> ELSE <<>>) \o Pick(s, S, i + 1)

\* the match lists for the patch list: the sublists of the first
\* MaxPatchRecords stored records
PatchLists ==
    LET n     == IF MaxPatchRecords < Len(StoredVersions)
                 THEN MaxPatchRecords ELSE Len(StoredVersions)
        all   == [i \in 1..n |->
                    Match(0, 420, StoredVersions[i], "Ahri", TRUE, 0, 0, 0, 0, 0)]
        stamp(l) == [i \in 1..Len(l) |-> [l[i] EXCEPT !.matchId = i]]
    IN  { stamp(Pick(all, S, 1)) : S \in SUBSET (1..n) }

\* a call of get_available_patches(matches)
GetAvailablePatches ==
    LET r == get_available_patches(matches)
    IN  /\ op' = "get_available_patches"
        /\ input' = matches
        /\ matches' = r.matches
        /\ ret' = r.ret
        /\ raised' = r.raised
        /\ UNCHANGED <<now, tz, period, mode, count, read_at, prev, fetchVars>>

InitPatches ==
    /\ matches \in PatchLists
    /\ input = matches
    /\ now = 2 * Week
    /\ tz = FixedZone
    /\ op = "none"
    /\ period = "all"
    /\ mode = "all"
    /\ count = 0
    /\ ret = <<>>
    /\ raised = "none"
    /\ read_at = NoReading
    /\ prev = NoCall
    /\ FetchIdle

NextPatches == GetAvailablePatches
SpecPatches == InitPatches /\ [][NextPatches]_vars

\* the matches a run fetches: three games, two of them at the same time and
\* processed into one of two records
CreatedAt(id) == IF id = 3 THEN 2 * Day ELSE Day

FetchedRecords ==
    { r \in { [Match(CreatedAt(id), 420, "14.3.456.789", "Ahri", TRUE,
                     k, 0, 0, 0, 0) EXCEPT !.matchId = id] :
                  id \in 1..3, k \in 0..1 } :
        r.matchId = 3 => r.myData.kills = 0 }

FetchedLists ==
    UNION { [1..n -> FetchedRecords] : n \in 0..MaxFetched }

\* a run of main that gets to its end: load, fetch, merge, sort and save
Main ==
    \E fetched \in FetchedLists :
        /\ op' = "main"
        /\ existing_matches' = file.matches
        /\ new_matches' = fetched
        /\ file' = output_data(file, fetched, now)
        /\ ret' = <<>>
        /\ raised' = "none"
        /\ UNCHANGED <<now, tz, statsVars, requestVars, selectVars>>

InitMerge ==
    /\ StatsIdle
    /\ FetchIdle
    /\ now = 3 * Day
    /\ tz = FixedZone
    /\ op = "none"
    /\ ret = <<>>
    /\ raised = "none"

NextMerge == Main
SpecMerge == InitMerge /\ [][NextMerge]_vars

\* the endpoints _request is called for
Endpoints == { "summoner_by_name", "match_ids", "match_detail" }

\* what requests.get can give: a response with a status code, for 429 with
\* or without a Retry-After header, or a RequestException
Statuses == { 200, 400, 401, 403, 404, 500, 502, 503 }
RetryAfterHeaders == { <<>>, <<"1">>, <<"7">>, <<"soon">>, <<"-1">> }

Responses ==
    { [kind |-> "response", status |-> st, headers |-> <<>>] : st \in Statuses }
    \cup { [kind |-> "response", status |-> 429, headers |-> h] :
               h \in RetryAfterHeaders }
    \cup { [kind |-> "RequestException", status |-> 0, headers |-> <<>>] }

\* a call of _request(url): up to the first test of the loop condition
Request ==
    \E u \in Endpoints :
        /\ pc = "idle"
        /\ op' = "_request"
        /\ url' = u
        /\ pc' = "while"
        /\ retry_count' = 0
        /\ response' = NoResponse
        /\ slept' = 0
        /\ message' = ""
        /\ ret' = <<>>
        /\ raised' = "none"
        /\ UNCHANGED <<now, tz, statsVars, mergeVars, selectVars>>

\* one pass of the running call through its loop
LoopPass ==
    /\ pc = "while"
    /\ \E r \in Responses :
           LET o == loop_pass(retry_count, r, url)
           IN  /\ response' = (IF retry_count < max_retries THEN r ELSE response)
               /\ pc' = o.pc
               /\ retry_count' = o.retry_count
               /\ ret' = o.ret
               /\ raised' = o.raised
               /\ message' = o.message
               /\ slept' = o.slept
    /\ UNCHANGED <<now, tz, op, url, statsVars, mergeVars, selectVars>>

InitRequest ==
    /\ StatsIdle
    /\ FetchIdle
    /\ now = 3 * Day
    /\ tz = FixedZone
    /\ op = "none"
    /\ ret = <<>>
    /\ raised = "none"

NextRequest == Request \/ LoopPass
SpecRequest == InitRequest /\ [][NextRequest]_vars

\* a running call goes on running
SpecRequestLive == SpecRequest /\ WF_vars(LoopPass)

\* the player's matches at the API: newest first, the ids in order of play
PlayedAt == { Day, 2 * Day, 3 * Day }

Played ==
    { s \in UNION { [1..n -> PlayedAt] : n \in 0..MaxPlayed } :
        \A i \in 1..(Len(s) - 1) : s[i] >= s[i + 1] }

Cutoffs == { 2 * Day, 3 * Day }

\* a call of fetch_new_matches with a last_update
FetchNewMatches ==
    LET r == fetch_new_matches(riot, last_update_timestamp)
    IN  /\ op' = "fetch_new_matches"
        /\ match_ids' = r.match_ids
        /\ ret' = r.ret
        /\ raised' = "none"
        /\ UNCHANGED <<now, tz, riot, last_update_timestamp, statsVars,
                       mergeVars, requestVars>>

InitSelect ==
    /\ StatsIdle
    /\ MergeIdle
    /\ RequestIdle
    /\ \E s \in Played :
           riot = [i \in 1..Len(s) |->
                      [matchId |-> Len(s) + 1 - i, gameCreation |-> s[i]]]
    /\ last_update_timestamp \in Cutoffs
    /\ match_ids = <<>>
    /\ now = 3 * Day
    /\ tz = FixedZone
    /\ op = "none"
    /\ ret = <<>>
    /\ raised = "none"

NextSelect == FetchNewMatches
SpecSelect == InitSelect /\ [][NextSelect]_vars

-----------------------------------------------------------------------------
(* Properties of filter_matches *)

\* C1: filter_matches returns a subsequence of its input (every returned
\* record is the input record of the same matchId, and the records come in
\* the order of the input), and the caller's list is the same after the call.
C1_Subsequence ==
    op = "filter_matches" =>
        /\ matches = input
        /\ Len(ret) <= Len(input)
        /\ \A i \in 1..Len(ret) :
              /\ ret[i].matchId \in 1..Len(input)
              /\ ret[i] = input[ret[i].matchId]
        /\ \A i, j \in 1..Len(ret) :
              i < j => ret[i].matchId < ret[j].matchId

\* a call that drops the middle record of three
C1_Witness ==
    /\ op = "filter_matches"
    /\ Len(input) = 3
    /\ Len(ret) = 2
    /\ ret[1] = input[1]
    /\ ret[2] = input[3]
    /\ matches = input

\* what int() gives for the mode strings of the model (Python 3)
IntModes ==
    { <<"420", 420>>, <<"450", 450>>, <<" 420 ", 420>>, <<"+450", 450>>,
      <<"4_20", 420>>, <<"-1", 0 - 1>> }

\* the mode strings of the model for which int() raises ValueError
NonIntModes == { "abc", "", "420.0", "4__20" }

\* the records of s whose queueId is q
WithQueue(s, q) ==
    LET keep(m) == m.queueId = q
    IN  SelectSeq(s, keep)

\* C2: the mode step of filter_matches, applied to the period-filtered list:
\* mode "all" removes nothing; a mode that parses as the integer q keeps
\* exactly the records with queueId = q; a mode that does not parse removes
\* nothing; and no exception leaves the call.
C2_ModeStep ==
    op = "filter_matches" =>
        LET base == period_filter(input, period, now, tz)
        IN  /\ raised = "none"
            /\ mode = "all" => ret = base
            /\ \A e \in IntModes : mode = e[1] => ret = WithQueue(base, e[2])
            /\ mode \in NonIntModes => ret = base

\* mode "abc" on a list with both game modes: the whole list comes back
C2_Witness ==
    /\ op = "filter_matches"
    /\ mode = "abc"
    /\ period = "all"
    /\ Len(input) = 3
    /\ input[1].queueId = 420
    /\ input[2].queueId = 450
    /\ ret = input
    /\ raised = "none"

\* the records of s whose gameVersion has the prefix v
WithPrefix(s, v) ==
    LET keep(m) == /\ Len(m.gameVersion) >= Len(v)
                   /\ SubSeq(m.gameVersion, 1, Len(v)) = v
    IN  SelectSeq(s, keep)

\* the gameVersions of the records of s, in order
Versions(s) == [i \in 1..Len(s) |-> s[i].gameVersion]

\* C3: with period "patch_X.Y" and mode "all", filter_matches keeps exactly
\* the records whose gameVersion starts with the text X.Y; for "patch_14.3",
\* versions 14.3.456.789 and 14.30.1.1 are kept and 14.2.1.1 is dropped.
C3_PatchPrefix ==
    op = "filter_matches" /\ mode = "all" =>
        /\ \A v \in PatchVersions :
              period = "patch_" \o v => ret = WithPrefix(input, v)
        /\ period = "patch_14.3" =>
              \A i \in 1..Len(input) :
                 LET kept == \E j \in 1..Len(ret) : ret[j] = input[i]
                 IN  /\ input[i].gameVersion = "14.3.456.789" => kept
                     /\ input[i].gameVersion = "14.30.1.1" => kept
                     /\ input[i].gameVersion = "14.2.1.1" => ~kept

\* patch_14.3 applied to the three versions of the scenario
C3_Witness ==
    /\ op = "filter_matches"
    /\ period = "patch_14.3"
    /\ mode = "all"
    /\ Versions(input) = <<"14.2.1.1", "14.30.1.1", "14.3.456.789">>
    /\ Versions(ret) = <<"14.30.1.1", "14.3.456.789">>

\* the most recent Monday 00:00:00.000 of the local clock
MostRecentMonday == now - (now % Week)

\* its epoch time, M, and the epoch time of the Monday 00:00 local seven
\* days before it
ThisMonday == timestamp(MostRecentMonday, tz)
PreviousMonday == timestamp(MostRecentMonday - 7 * Day, tz)

\* the records of s created in [lo, hi)
CreatedIn(s, lo, hi) ==
    LET keep(m) == lo <= m.gameCreation /\ m.gameCreation < hi
    IN  SelectSeq(s, keep)

\* the records of s created at or after lo
CreatedFrom(s, lo) ==
    LET keep(m) == lo <= m.gameCreation
    IN  SelectSeq(s, keep)

\* C4: for the clock reading now, "last_week" keeps exactly the records
\* created in [previous Monday 00:00, this Monday 00:00) and "this_week"
\* exactly those created at or after this Monday 00:00 (local time); a record
\* created at this Monday 00:00 is in this_week and not in last_week, and no
\* record is kept by both.
C4_WeekIntervals ==
    op = "filter_matches" /\ mode = "all" =>
        /\ period = "last_week" =>
              ret = CreatedIn(input, PreviousMonday, ThisMonday)
        /\ period = "this_week" => ret = CreatedFrom(input, ThisMonday)
        /\ \A i \in 1..Len(input) :
              LET one  == <<input[i]>>
                  this == filter_matches(one, "this_week", "all", now, tz).ret
                  last == filter_matches(one, "last_week", "all", now, tz).ret
              IN  /\ Len(this) + Len(last) <= 1
                  /\ input[i].gameCreation = ThisMonday =>
                        this = one /\ last = <<>>

\* last_week in the week after the clocks went forward: the records created
\* at the previous Monday 00:00 and one unit before this Monday 00:00 are
\* kept, the record created at this Monday 00:00 is not
C4_Witness ==
    /\ op = "filter_matches"
    /\ period = "last_week"
    /\ tz = SpringZone
    /\ Len(input) = 3
    /\ input[1].gameCreation = PreviousMonday
    /\ input[2].gameCreation = ThisMonday
    /\ input[3].gameCreation = ThisMonday - 1
    /\ ret = <<input[1], input[3]>>

RecognisedPeriods ==
    { "all", "this_week", "last_week", "last_30_days", "last_7_days" }

\* C5: a period that is none of the recognised names and does not begin with
\* "patch_" filters nothing and raises nothing: the result is the result for
\* period "all" with the same mode.
C5_UnknownPeriod ==
    /\ op = "filter_matches"
    /\ period \notin RecognisedPeriods
    /\ ~ (Len(period) >= 6 /\ SubSeq(period, 1, 6) = "patch_")
    => /\ raised = "none"
       /\ ret = filter_matches(input, "all", mode, now, tz).ret

\* period "This_Week" on a list holding a game of last week: nothing is
\* removed by the period step
C5_Witness ==
    /\ op = "filter_matches"
    /\ period = "This_Week"
    /\ mode = "all"
    /\ Len(input) = 3
    /\ input[2].gameCreation < ThisMonday
    /\ ret = input
    /\ raised = "none"

-----------------------------------------------------------------------------
(* Properties of calculate_champion_stats *)

\* the filtered match list of the last call
Filtered == filter_matches(input, period, mode, now, tz).ret

\* the champion names of the records of s
Names(s) == { s[i].myData.championName : i \in 1..Len(s) }

\* the records of s played on the champion named exactly c
PlayedOn(s, c) ==
    LET keep(m) == m.myData.championName = c
    IN  SelectSeq(s, keep)

\* the position of the first record of s played on c
FirstIndex(s, c) ==
    CHOOSE i \in 1..Len(s) :
        /\ s[i].myData.championName = c
        /\ \A j \in 1..(i - 1) : s[j].myData.championName # c

RECURSIVE SeqSum(_)
SeqSum(s) == IF s = <<>> THEN 0 ELSE Head(s) + SeqSum(Tail(s))

Abs(x) == IF x < 0 THEN 0 - x ELSE x

\* C6: the list calculate_champion_stats returns is ordered by games,
\* non-increasing, and two champions with the same number of games come in
\* the order of their first records in the filtered match list.
C6_SortedStable ==
    op = "calculate_champion_stats" /\ raised = "none" =>
        \A i, j \in 1..Len(ret) :
            i < j =>
                /\ ret[i].games >= ret[j].games
                /\ ret[i].championName \in Names(Filtered)
                /\ ret[j].championName \in Names(Filtered)
                /\ ret[i].games = ret[j].games =>
                      FirstIndex(Filtered, ret[i].championName)
                        < FirstIndex(Filtered, ret[j].championName)

\* four games: the champion played twice comes first although it was met
\* last, and the two champions played once keep the order of their games
C6_Witness ==
    /\ op = "calculate_champion_stats"
    /\ mode = "all"
    /\ Len(input) = 4
    /\ [i \in 1..4 |-> input[i].myData.championName]
         = <<"Zed", "ahri", "Ahri", "Ahri">>
    /\ [i \in 1..Len(ret) |-> ret[i].championName] = <<"Ahri", "Zed", "ahri">>
    /\ [i \in 1..Len(ret) |-> ret[i].games] = <<2, 1, 1>>

\* C7: calculate_champion_stats partitions the filtered matches by the exact
\* championName: one aggregate for every distinct name, no name in two
\* aggregates, every aggregate counting the records of its name, and the
\* games of all aggregates adding up to the number of filtered matches.
C7_Partition ==
    op = "calculate_champion_stats" /\ raised = "none" =>
        /\ Len(ret) = Cardinality(Names(Filtered))
        /\ \A i, j \in 1..Len(ret) :
              i # j => ret[i].championName # ret[j].championName
        /\ \A i \in 1..Len(ret) :
              ret[i].games = Len(PlayedOn(Filtered, ret[i].championName))
        /\ SeqSum([i \in 1..Len(ret) |-> ret[i].games]) = Len(Filtered)

\* "Ahri" and "ahri" are two groups
C7_Witness ==
    /\ op = "calculate_champion_stats"
    /\ mode = "420"
    /\ Len(input) = 4
    /\ Len(Filtered) = 3
    /\ [i \in 1..3 |-> Filtered[i].myData.championName]
         = <<"Ahri", "ahri", "Ahri">>
    /\ [i \in 1..Len(ret) |-> ret[i].championName] = <<"Ahri", "ahri">>
    /\ [i \in 1..Len(ret) |-> ret[i].games] = <<2, 1>>

\* the sums of a champion's kills, deaths, assists and damage over s
TotalKills(s, c) ==
    LET g == PlayedOn(s, c) IN SeqSum([i \in 1..Len(g) |-> g[i].myData.kills])

TotalDeaths(s, c) ==
    LET g == PlayedOn(s, c) IN SeqSum([i \in 1..Len(g) |-> g[i].myData.deaths])

TotalAssists(s, c) ==
    LET g == PlayedOn(s, c) IN SeqSum([i \in 1..Len(g) |-> g[i].myData.assists])

TotalDealt(s, c) ==
    LET g == PlayedOn(s, c)
    IN  SeqSum([i \in 1..Len(g) |-> g[i].myData.totalDamageDealtToChampions])

TotalTaken(s, c) ==
    LET g == PlayedOn(s, c)
    IN  SeqSum([i \in 1..Len(g) |-> g[i].myData.totalDamageTaken])

\* C8: for every champion group avgKDA is (kills + assists) /
\* max(deaths, 1), to two decimals (avgKDA counts hundredths): no call ends
\* in a division by zero, and kills 12, assists 8, deaths 10 give 2.0.
C8_KdaDenominator ==
    op = "calculate_champion_stats" =>
        /\ raised = "none"
        /\ \A i \in 1..Len(ret) :
              LET c   == ret[i].championName
                  ka  == TotalKills(Filtered, c) + TotalAssists(Filtered, c)
                  d   == TotalDeaths(Filtered, c)
                  den == IF d >= 1 THEN d ELSE 1
              IN  /\ 2 * Abs(ret[i].avgKDA * den - 100 * ka) <= den
                  /\ d = 0 => ret[i].avgKDA = 100 * ka
                  /\ TotalKills(Filtered, c) = 12 /\ ka = 20 /\ d = 10 =>
                        ret[i].avgKDA = 200

\* one champion with kills 12, assists 8, deaths 10 and one without deaths
C8_Witness ==
    /\ op = "calculate_champion_stats"
    /\ raised = "none"
    /\ Len(ret) = 2
    /\ ret[1].totalKills = 12 /\ ret[1].totalAssists = 8
    /\ ret[1].totalDeaths = 10 /\ ret[1].avgKDA = 200
    /\ ret[2].totalKills = 3 /\ ret[2].totalAssists = 4
    /\ ret[2].totalDeaths = 0 /\ ret[2].avgKDA = 700

\* C9 as stated: avgDamageDealt and avgDamageTaken are the sums divided by
\* games, rounded to the nearest integer, a quotient exactly halfway between
\* two integers going up.
C9_RoundHalfUp ==
    op = "calculate_champion_stats" /\ raised = "none" =>
        \A i \in 1..Len(ret) :
            LET c == ret[i].championName
                g == ret[i].games
            IN  /\ ret[i].avgDamageDealt
                     = (2 * TotalDealt(Filtered, c) + g) \div (2 * g)
                /\ ret[i].avgDamageTaken
                     = (2 * TotalTaken(Filtered, c) + g) \div (2 * g)

\* a is x / g rounded to the nearest integer, halfway going to the even one
NearestTiesToEven(a, x, g) ==
    /\ 2 * Abs(a * g - x) <= g
    /\ 2 * Abs(a * g - x) = g => a % 2 = 0

\* C9, amended: avgDamageDealt and avgDamageTaken are the sums divided by
\* games, rounded to the nearest integer, a quotient exactly halfway between
\* two integers going to the even one.
C9_RoundHalfEven ==
    op = "calculate_champion_stats" /\ raised = "none" =>
        \A i \in 1..Len(ret) :
            LET c == ret[i].championName
                g == ret[i].games
            IN  /\ g >= 1
                /\ NearestTiesToEven(ret[i].avgDamageDealt,
                                     TotalDealt(Filtered, c), g)
                /\ NearestTiesToEven(ret[i].avgDamageTaken,
                                     TotalTaken(Filtered, c), g)

\* damage 20001 dealt in two games: the average 10000.5 is returned as 10000
C9_Witness ==
    /\ op = "calculate_champion_stats"
    /\ raised = "none"
    /\ Len(ret) >= 1
    /\ ret[1].games = 2
    /\ TotalDealt(Filtered, ret[1].championName) = 20001
    /\ ret[1].avgDamageDealt = 10000

-----------------------------------------------------------------------------
(* Properties of get_recent_matches *)

\* C10: get_recent_matches(matches, N), N >= 0, returns min(N, len(matches))
\* records of the input, non-increasing by gameCreation; they are the first
\* N of the input in the order "later gameCreation first, equal gameCreation
\* in input order", and the caller's list is not reordered.
C10_Recent ==
    op = "get_recent_matches" =>
        LET ids == { ret[i].matchId : i \in 1..Len(ret) }
        IN  /\ matches = input
            /\ raised = "none"
            /\ Len(ret) = (IF count < Len(input) THEN count ELSE Len(input))
            /\ Cardinality(ids) = Len(ret)
            /\ \A i \in 1..Len(ret) :
                  /\ ret[i].matchId \in 1..Len(input)
                  /\ ret[i] = input[ret[i].matchId]
            /\ \A i, j \in 1..Len(ret) :
                  i < j =>
                     /\ ret[i].gameCreation >= ret[j].gameCreation
                     /\ ret[i].gameCreation = ret[j].gameCreation =>
                           ret[i].matchId < ret[j].matchId
            /\ \A x \in (1..Len(input)) \ ids :
                  \A i \in 1..Len(ret) :
                     \/ input[x].gameCreation < ret[i].gameCreation
                     \/ /\ input[x].gameCreation = ret[i].gameCreation
                        /\ x > ret[i].matchId

\* two of three records, the two oldest created at the same time: the
\* first of them in the input is the one returned
C10_Witness ==
    /\ op = "get_recent_matches"
    /\ count = 2
    /\ [i \in 1..Len(input) |-> input[i].gameCreation] = <<10, 30, 10>>
    /\ ret = <<input[2], input[1]>>
    /\ matches = input

-----------------------------------------------------------------------------
(* Properties of get_available_patches *)

\* the number of dots of s
DotCount(s) == Cardinality({i \in 1..Len(s) : SubSeq(s, i, i) = "."})

\* pt is the first two dot-separated segments of gv, joined by a dot
IsPatchOf(pt, gv) ==
    /\ DotCount(pt) = 1
    /\ \/ gv = pt
       \/ Len(gv) > Len(pt) /\ SubSeq(gv, 1, Len(pt) + 1) = pt \o "."

\* the patches present in the records of s
PatchesIn(s) ==
    { pt \in UNION { { SubSeq(s[i].gameVersion, 1, k) :
                          k \in 0..Len(s[i].gameVersion) } : i \in 1..Len(s) } :
        \E i \in 1..Len(s) : IsPatchOf(pt, s[i].gameVersion) }

\* C11: get_available_patches returns at most 5 entries without duplicates,
\* each the first two dot-separated segments of a record's gameVersion,
\* in descending string order; a gameVersion with fewer than two segments
\* adds nothing and raises nothing; and the entries are the 5 largest (as
\* strings) of the distinct patches present.
C11_Patches ==
    op = "get_available_patches" =>
        /\ raised = "none"
        /\ Len(ret) <= 5
        /\ Len(ret) = (IF Cardinality(PatchesIn(input)) < 5
                       THEN Cardinality(PatchesIn(input)) ELSE 5)
        /\ \A i \in 1..Len(ret) : ret[i] \in PatchesIn(input)
        /\ \A i, j \in 1..Len(ret) : i < j => str_less(ret[j], ret[i])
        /\ \A i, j \in 1..Len(ret) :
              i < j /\ ret[i] = "14.10" => ret[j] # "14.9"
        /\ \A pt \in PatchesIn(input) :
              (\A i \in 1..Len(ret) : ret[i] # pt) =>
                  \A i \in 1..Len(ret) : str_less(pt, ret[i])

\* nine records with six patches: "14.9" comes before "14.10", the versions
\* "14" and "" add nothing, and the smallest patch, "13.24", is left out
C11_Witness ==
    /\ op = "get_available_patches"
    /\ Len(input) = 9
    /\ \E i \in 1..Len(input) : input[i].gameVersion = "13.24.5.5"
    /\ \E i \in 1..Len(input) : input[i].gameVersion = "14"
    /\ ret = << "15.1", "14.9", "14.3", "14.2", "14.10" >>
    /\ raised = "none"


-----------------------------------------------------------------------------
(* Repeated calls of calculate_champion_stats *)

\* the last two calls were calls of calculate_champion_stats with the same
\* period and mode, on the caller's one list
SameCall ==
    /\ op = "calculate_champion_stats"
    /\ prev.op = "calculate_champion_stats"
    /\ prev.period = period
    /\ prev.mode = mode

\* both calls gave the same output and neither changed the caller's list
SameOutcome ==
    /\ ret = prev.ret
    /\ raised = prev.raised
    /\ matches = input
    /\ input = prev.input

\* C12 as stated: two successive calls of calculate_champion_stats with the
\* same matches, period and mode give identical output and leave the list
\* alone, for every period, the clock-dependent ones included, while the wall
\* clock advances between the calls.
C12_Idempotent == SameCall => SameOutcome

\* C12: two successive calls of calculate_champion_stats with the same
\* matches, period and mode give identical output and leave the list alone,
\* provided that, for the periods this_week, last_week, last_30_days and
\* last_7_days, both calls read the same wall-clock time.
C12_IdempotentSameClock ==
    (SameCall /\ (period \in ClockPeriods => read_at = prev.read_at))
        => SameOutcome

\* a second this_week call on Monday 01:00 of week 2, the clock read as in the
\* first call, which drops a game of week 1 and keeps one of week 2
C12_Witness ==
    /\ SameCall
    /\ period = "this_week"
    /\ read_at = 2 * Week + Hour
    /\ prev.read_at = read_at
    /\ ret # <<>>
    /\ \E i \in 1..Len(matches) : matches[i].gameCreation < 2 * Week
    /\ SameOutcome

-----------------------------------------------------------------------------
(* main: the stored matches *)

\* the positions of s that hold a record with this matchId
WithId(s, id) == { i \in 1..Len(s) : s[i].matchId = id }

Max(S) == CHOOSE x \in S : \A y \in S : y <= x

\* C13: after any sequence of runs of main the stored matches hold no two
\* records with the same matchId, and the record stored for a matchId is the
\* last one with that id in the stored matches followed by the fetched ones:
\* a fetched record overwrites the stored one.
C13_UniqueLastWins ==
    /\ \A i, j \in 1..Len(file.matches) :
           file.matches[i].matchId = file.matches[j].matchId => i = j
    /\ op = "main" =>
           LET all_matches == existing_matches \o new_matches
           IN  /\ \A i \in 1..Len(all_matches) :
                      WithId(file.matches, all_matches[i].matchId) # {}
               /\ \A k \in 1..Len(file.matches) :
                      LET at == WithId(all_matches, file.matches[k].matchId)
                      IN  at # {} /\ file.matches[k] = all_matches[Max(at)]

\* a run fetched a different record for a stored matchId, twice over, and
\* the last fetched one is stored
C13_Witness ==
    /\ op = "main"
    /\ Len(new_matches) = 2
    /\ Len(existing_matches) >= 2
    /\ \E e \in 1..Len(existing_matches), k \in 1..Len(file.matches) :
           /\ new_matches[1].matchId = existing_matches[e].matchId
           /\ new_matches[2].matchId = existing_matches[e].matchId
           /\ new_matches[1] # new_matches[2]
           /\ new_matches[2] # existing_matches[e]
           /\ file.matches[k] = new_matches[2]
           /\ Len(file.matches) = Len(existing_matches)

-----------------------------------------------------------------------------
(* RiotAPIClient._request: the exceptions and the retries *)

\* the last pass of the running or ended call got a response with this status
Answered(st) ==
    /\ op = "_request"
    /\ response.kind = "response"
    /\ response.status = st

\* the call of _request has ended by raising exc
Raised(exc) == op = "_request" /\ pc = "idle" /\ raised = exc

\* C14: a response with status 429 makes _request raise RateLimitError, one
\* with status 404 DataNotFoundError, and a call that fails in another way
\* raises RiotAPIError.
C14_Raises ==
    /\ Answered(429) => Raised("RateLimitError")
    /\ Answered(404) => Raised("DataNotFoundError")
    /\ (op = "_request" /\ pc = "idle" /\ raised # "none"
            /\ ~Answered(429) /\ ~Answered(404))
           => raised = "RiotAPIError"

\* retry_count stays within max_retries, the call is over with RiotAPIError
\* once it is max_retries, and the raise after the loop is not reached
RetriesBounded ==
    /\ retry_count <= max_retries
    /\ retry_count = max_retries => Raised("RiotAPIError")
    /\ message # "Unexpected error in _request"

\* C15: retry_count never exceeds max_retries, no request follows the third
\* failed attempt, the raise after the loop is never reached, and every call
\* of _request ends, returning or raising, whatever the server answers.
C15_Terminates ==
    /\ []RetriesBounded
    /\ (pc = "while") ~> (pc = "idle")

-----------------------------------------------------------------------------
(* fetch_new_matches: the ids selected *)

Selected == { match_ids[i] : i \in 1..Len(match_ids) }

\* the ids of the matches created at or after the cutoff
SinceCutoff ==
    { riot[j].matchId : j \in { k \in 1..Len(riot) :
                                  riot[k].gameCreation >= last_update_timestamp } }

\* C16: in incremental mode fetch_new_matches selects exactly the ids of the
\* matches whose gameCreation is at or after last_update, the API listing
\* the ids newest first in pages.
C16_Exact == op = "fetch_new_matches" => Selected = SinceCutoff

\* no match created at or after the cutoff is left out
NoneLeftOut == op = "fetch_new_matches" => SinceCutoff \subseteq Selected

=============================================================================
